---- MODULE Spec2Model ----
(***************************************************************************)
(* The PDF -> JPG -> TXT -> CSV -> analysis pipeline of pdf2csv, in its    *)
(* two variants: main.py (password and OCR language, the pipeline wrapped  *)
(* in try/except) and pdf2csv.py (password and page range, no try/except). *)
(*                                                                         *)
(* A text is a sequence of one-character strings.  The working directory   *)
(* is three maps: jpgDisk and txtDisk from the page number n of            *)
(* page_<n>.jpg / page_<n>.txt to the file's content, csvDisk from the     *)
(* stem of output.csv / gemini_analysis_output.csv to its content.  A file *)
(* exists when it is in the map's DOMAIN.                                  *)
(***************************************************************************)
EXTENDS Integers, Sequences, FiniteSets, TLC

VARIABLES
    variant,        \* "main" (main.py) or "pdf2csv" (pdf2csv.py)
    apiKey,         \* GEMINI_API_KEY: "unset", "empty" or "set"
    pc,             \* position of the script
    pdf,            \* the uploaded document: per page, the text on it
    first_page,     \* pdf2csv.py's number inputs (0 in main.py: not passed)
    last_page,
    jpgDisk,        \* page_<n>.jpg
    txtDisk,        \* page_<n>.txt
    csvDisk,        \* output.csv, gemini_analysis_output.csv
    jpg_files,      \* main()'s locals
    txt_files,
    csv_data,
    shown,          \* what st.error / st.write / st.success have displayed
    requests,       \* requests that left for the language-model service
    trace,          \* the pipeline steps entered so far, in order
    failed,         \* the step that raised, or "none"
    rasterOutcome,  \* what convert_from_bytes did in this run
    saved,          \* page numbers pdf_to_jpg wrote in this run
    extracted,      \* per input image of jpg_to_txt, the text OCR returned
    analysisOutcome,\* what the analysis step met
    disk0,          \* the working directory when Convert was clicked
    diskAtAnalysis, \* the working directory when the analysis step began
    line,           \* a single line handed to the reformatter's transform
    once,           \* the transform applied to line
    twice,          \* the transform applied to once
    lpc             \* position of the line experiment

vars == <<variant, apiKey, pc, pdf, first_page, last_page, jpgDisk, txtDisk,
          csvDisk, jpg_files, txt_files, csv_data, shown, requests, trace,
          failed, rasterOutcome, saved, extracted, analysisOutcome, disk0,
          diskAtAnalysis, line, once, twice, lpc>>

pipeVars == <<variant, apiKey, pc, pdf, first_page, last_page, jpgDisk,
              txtDisk, csvDisk, jpg_files, txt_files, csv_data, shown,
              requests, trace, failed, rasterOutcome, saved, extracted,
              analysisOutcome, disk0, diskAtAnalysis>>

lineVars == <<line, once, twice, lpc>>

(***************************************************************************)
(* Bounds                                                                  *)
(***************************************************************************)
MaxPages == 2
MaxLineLen == 3

\* first_page / last_page may point past the end of the document
PageArgs == 1..(MaxPages + 1)

(***************************************************************************)
(* Texts                                                                   *)
(***************************************************************************)
NL == "\n"
COMMA == ","
SPACE == " "
QUOTE == "\""

Empty == <<>>

\* str.replace(c, "")
RemoveAll(s, c) == SelectSeq(s, LAMBDA x : x # c)

\* str.replace(c, d), one character for one character
ReplaceAll(s, c, d) == [i \in 1..Len(s) |-> IF s[i] = c THEN d ELSE s[i]]

(***************************************************************************)
(* Step 3: TXT to CSV                                                      *)
(***************************************************************************)
\* The three replace calls use the wrong order: the spaces become commas
\* before the commas are removed, so the separators are removed too.
TransformSpacesFirst(l) ==
    LET with_added_commas == ReplaceAll(l, SPACE, COMMA)
        without_comma == RemoveAll(with_added_commas, COMMA)
    IN  RemoveAll(without_comma, QUOTE)

\* The first replace call (the comma removal) is missing.
TransformKeepsCommas(l) ==
    LET with_added_commas == ReplaceAll(l, SPACE, COMMA)
    IN  RemoveAll(with_added_commas, QUOTE)

\* The body of the loop over a file's lines.
Transform(l) ==
    LET without_comma == RemoveAll(l, COMMA)
        with_added_commas == ReplaceAll(without_comma, SPACE, COMMA)
        cleaned_line == RemoveAll(with_added_commas, QUOTE)
    IN  cleaned_line

\* The index of the first line feed of t, 0 when it has none.
FirstNL(t) ==
    IF \E i \in 1..Len(t) : t[i] = NL
    THEN CHOOSE i \in 1..Len(t) : t[i] = NL /\ \A j \in 1..(i - 1) : t[j] # NL
    ELSE 0

\* file.readlines(): the lines of t, each with its line feed; a last line
\* without a line feed is a line too, and an empty file has no lines.
RECURSIVE ReadLines(_)
ReadLines(t) ==
    IF t = Empty THEN <<>>
    ELSE LET k == FirstNL(t)
         IN  IF k = 0 THEN <<t>>
             ELSE <<SubSeq(t, 1, k)>> \o ReadLines(SubSeq(t, k + 1, Len(t)))

\* The transformed lines of one file, in order.
ConvertLines(ls) == [i \in 1..Len(ls) |-> Transform(ls[i])]

\* txt_to_csv: the files in the order given, each file's lines in order.
RECURSIVE TxtToCsv(_, _)
TxtToCsv(disk, files) ==
    IF files = <<>> THEN <<>>
    ELSE ConvertLines(ReadLines(disk[Head(files).n]))
             \o TxtToCsv(disk, Tail(files))

\* fout.writelines(data) / fout.write(entry) for each entry: the entries
\* one after the other, nothing between them.
RECURSIVE WriteLines(_)
WriteLines(data) ==
    IF data = <<>> THEN Empty ELSE Head(data) \o WriteLines(Tail(data))

(***************************************************************************)
(* The environment: documents, the working directory, the service          *)
(***************************************************************************)
\* What OCR reads off a page: a line with its line feed, two lines the
\* last of which has no line feed, a quoted field with a comma, nothing.
PageTexts ==
    { <<"a", NL>>,
      <<"a", SPACE, "b", NL, "c">>,
      <<QUOTE, "a", COMMA, QUOTE, SPACE, "b", NL>>,
      Empty }

\* Documents of 1..MaxPages pages.
Pdfs == UNION { [1..k -> PageTexts] : k \in 1..MaxPages }

\* A page image: the page of the document it shows and what is on it.
Image(doc, p) == [page |-> p, ink |-> doc[p]]

\* pytesseract.image_to_string(img): the text the engine reads off img.
ImageToString(img) == img.ink

\* The working directory before Convert: empty, or the files a previous
\* run over a two-page document left behind.
StaleDoc == <<<<"c", NL>>, <<"d", NL>>>>
EmptyDisk == [jpg |-> <<>>, txt |-> <<>>, csv |-> <<>>]
StaleDisk ==
    [jpg |-> <<Image(StaleDoc, 1), Image(StaleDoc, 2)>>,
     txt |-> <<StaleDoc[1], StaleDoc[2]>>,
     csv |-> ("output" :> <<"c", NL, "d", NL>>)]

\* The texts a response of the service carries, and line 99's stand-in.
ResponseText == <<"o", "k">>
NoResponseText == <<"N", "o">>

\* f"page_{i + 1}.jpg" and Path.with_suffix
JpgPath(i) == [n |-> i, ext |-> "jpg"]

WithSuffix(path, ext) == [path EXCEPT !.ext = ext]

\* The files of the working directory the earlier steps wrote.
Artifacts == [jpg |-> jpgDisk, txt |-> txtDisk,
              csv |-> IF "output" \in DOMAIN csvDisk
                      THEN <<csvDisk["output"]>> ELSE <<>>]

(***************************************************************************)
(* Control flow of main()                                                  *)
(***************************************************************************)
Steps == <<"config", "raster", "ocr", "reformat", "save", "analysis">>

\* The OCR call is left out: the reformatter follows the rasterizer.
StepAfterSkipsOcr(s) ==
    CASE s = "config" -> "raster"
      [] s = "raster" -> "reformat"
      [] s = "ocr" -> "reformat"
      [] s = "reformat" -> "save"
      [] s = "save" -> "analysis"
      [] s = "analysis" -> "done"

\* The statement after the one of step s, in the body of the Convert branch.
StepAfter(s) ==
    CASE s = "config" -> "raster"
      [] s = "raster" -> "ocr"
      [] s = "ocr" -> "reformat"
      [] s = "reformat" -> "save"
      [] s = "save" -> "analysis"
      [] s = "analysis" -> "done"

\* The exception is swallowed and the next statement runs.
AfterRaiseGoesOn(v, s) == StepAfter(s)

\* Where an exception raised by step s leaves the script: main.py catches
\* it (except Exception, line 152) and the run ends; pdf2csv.py has no
\* handler, the exception ends the script run.
AfterRaise(v, s) == IF v = "main" THEN "done" ELSE "crashed"

\* What the handler of line 152 displays.
RaiseShown(v) == IF v = "main" THEN {"conversion_error"} ELSE {"traceback"}

(***************************************************************************)
(* Step 1: PDF to JPG                                                      *)
(***************************************************************************)
NoPage == 0

\* last_page is taken as exclusive: the last page of the range is lost.
RasterizeExclusiveLast(doc, first, last, outcome) ==
    LET page_count == Len(doc)
        l == IF last = NoPage \/ last > page_count THEN page_count ELSE last
    IN  [raised |-> outcome # "ok",
         images |-> IF outcome # "ok" \/ first > l - 1 THEN <<>>
                    ELSE [i \in 1..(l - first) |-> Image(doc, first + i - 1)]]

\* convert_from_bytes(pdf_bytes, first_page=, last_page=, userpw=): raises
\* on a wrong password or a corrupt document, before any page is rendered;
\* otherwise the images of pages first..last, last cut to the page count
\* (last = NoPage: no last_page passed), none when first is past it.
Rasterize(doc, first, last, outcome) ==
    LET page_count == Len(doc)
        l == IF last = NoPage \/ last > page_count THEN page_count ELSE last
    IN  [raised |-> outcome # "ok",
         images |-> IF outcome # "ok" \/ first > l THEN <<>>
                    ELSE [i \in 1..(l - first + 1) |-> Image(doc, first + i - 1)]]

\* The page_<n>.jpg files after the loop of pdf_to_jpg has saved the first
\* k images: image i goes to page_<i>.jpg, the other files stay.
JpgDiskAfter(disk, images, k) ==
    [i \in (DOMAIN disk) \cup (1..k) |-> IF i <= k THEN images[i] ELSE disk[i]]

\* The page images of earlier runs are deleted before the conversion.
PdfToJpgDiskCleansUp(disk, r, k) ==
    IF r.raised THEN <<>> ELSE JpgDiskAfter(<<>>, r.images, k)

\* The page_<n>.jpg files after pdf_to_jpg: convert_from_bytes comes
\* before the loop, so when it raises nothing has been saved.
PdfToJpgDisk(disk, r, k) ==
    IF r.raised THEN disk ELSE JpgDiskAfter(disk, r.images, k)

(***************************************************************************)
(* Step 2: JPG to TXT                                                      *)
(***************************************************************************)
\* The name is not derived from the image's: every text goes to page_1.txt.
TxtPathOfFirstPage(jpg_file) == [n |-> 1, ext |-> "txt"]

\* save_to_file_as_txt(filename, text): where the text goes.
TxtPathOf(jpg_file) == WithSuffix(jpg_file, "txt")

\* The page_<n>.txt files after the loop of jpg_to_txt has handled the
\* first k images: each text goes to the path save_to_file_as_txt names.
RECURSIVE TxtDiskAfter(_, _, _, _)
TxtDiskAfter(disk, jdisk, files, k) ==
    IF k = 0 THEN disk
    ELSE LET before == TxtDiskAfter(disk, jdisk, files, k - 1)
             target == TxtPathOf(files[k]).n
             text == ImageToString(jdisk[files[k].n])
         IN  [i \in (DOMAIN before) \cup {target} |->
                 IF i = target THEN text ELSE before[i]]

(***************************************************************************)
(* The script                                                              *)
(***************************************************************************)
LineIdle ==
    /\ line = Empty
    /\ once = Empty
    /\ twice = Empty
    /\ lpc = "off"

Init ==
    /\ variant \in {"main", "pdf2csv"}
    /\ apiKey \in {"unset", "empty", "set"}
    /\ pc = "load"
    /\ pdf = <<>>
    /\ first_page = NoPage
    /\ last_page = NoPage
    /\ disk0 \in {EmptyDisk, StaleDisk}
    /\ jpgDisk = disk0.jpg
    /\ txtDisk = disk0.txt
    /\ csvDisk = disk0.csv
    /\ jpg_files = <<>>
    /\ txt_files = <<>>
    /\ csv_data = <<>>
    /\ shown = {}
    /\ requests = 0
    /\ trace = <<>>
    /\ failed = "none"
    /\ rasterOutcome = "none"
    /\ saved = {}
    /\ extracted = <<>>
    /\ analysisOutcome = "none"
    /\ diskAtAnalysis = EmptyDisk
    /\ LineIdle

\* The statements at module level: main.py stops the script when
\* GEMINI_API_KEY is not set (is None) or when the client cannot be set
\* up; pdf2csv.py has none of this.
Startup ==
    /\ pc = "load"
    /\ \E sdkOk \in BOOLEAN :
         IF variant = "main" /\ apiKey = "unset"
         THEN /\ shown' = shown \cup {"api_key_not_found"}
              /\ pc' = "stopped"
         ELSE IF variant = "main" /\ ~sdkOk
         THEN /\ shown' = shown \cup {"configure_error"}
              /\ pc' = "stopped"
         ELSE /\ shown' = shown
              /\ pc' = "form"
    /\ UNCHANGED <<variant, apiKey, pdf, first_page, last_page, jpgDisk,
                   txtDisk, csvDisk, jpg_files, txt_files, csv_data,
                   requests, trace, failed, rasterOutcome, saved, extracted,
                   analysisOutcome, disk0, diskAtAnalysis>>
    /\ UNCHANGED lineVars

\* A document is uploaded, the form is filled in and Convert is clicked.
\* pdf2csv.py reads first and last page (each at least 1, independent of
\* each other); main.py has no page range.
ConvertClick ==
    /\ pc = "form"
    /\ \E doc \in Pdfs, f \in PageArgs, l \in PageArgs :
         /\ pdf' = doc
         /\ first_page' = IF variant = "pdf2csv" THEN f ELSE 1
         /\ last_page' = IF variant = "pdf2csv" THEN l ELSE NoPage
    /\ pc' = "config"
    /\ UNCHANGED <<variant, apiKey, jpgDisk, txtDisk, csvDisk, jpg_files,
                   txt_files, csv_data, shown, requests, trace, failed,
                   rasterOutcome, saved, extracted, analysisOutcome, disk0,
                   diskAtAnalysis>>
    /\ UNCHANGED lineVars

\* load_config(): config.read ignores a missing file, config.get raises
\* when the section or one of the two keys is absent.
LoadConfig ==
    /\ pc = "config"
    /\ trace' = Append(trace, "config")
    /\ \E settings \in {"ok", "no_file", "no_key"} :
         IF settings = "ok"
         THEN /\ pc' = StepAfter("config")
              /\ UNCHANGED <<failed, shown>>
         ELSE /\ failed' = "config"
              /\ pc' = AfterRaise(variant, "config")
              /\ shown' = shown \cup RaiseShown(variant)
    /\ UNCHANGED <<variant, apiKey, pdf, first_page, last_page, jpgDisk,
                   txtDisk, csvDisk, jpg_files, txt_files, csv_data,
                   requests, rasterOutcome, saved, extracted,
                   analysisOutcome, disk0, diskAtAnalysis>>
    /\ UNCHANGED lineVars

\* pdf_to_jpg(): convert_from_bytes, then the loop that saves each image.
\* n is the number of images saved before image.save raises (all of them
\* when nothing raises).
PdfToJpg ==
    /\ pc = "raster"
    /\ trace' = Append(trace, "raster")
    /\ \E outcome \in {"ok", "wrong_password", "corrupt"} :
         LET r == Rasterize(pdf, first_page, last_page, outcome) IN
         /\ rasterOutcome' = outcome
         /\ \E n \in 0..Len(r.images) :
              /\ jpgDisk' = PdfToJpgDisk(jpgDisk, r, n)
              /\ saved' = IF r.raised THEN {} ELSE 1..n
              /\ IF r.raised \/ n < Len(r.images)
                 THEN /\ failed' = "raster"
                      /\ pc' = AfterRaise(variant, "raster")
                      /\ shown' = shown \cup RaiseShown(variant) \cup
                                  (IF variant = "pdf2csv" /\ ~r.raised /\ n > 0
                                   THEN {"converted_to_jpg"} ELSE {})
                      /\ UNCHANGED jpg_files
                 ELSE /\ jpg_files' = [i \in 1..n |-> JpgPath(i)]
                      /\ pc' = StepAfter("raster")
                      /\ shown' = IF variant = "pdf2csv" /\ n > 0
                                  THEN shown \cup {"converted_to_jpg"}
                                  ELSE shown
                      /\ UNCHANGED failed
    /\ UNCHANGED <<variant, apiKey, pdf, first_page, last_page, txtDisk,
                   csvDisk, txt_files, csv_data, requests, extracted,
                   analysisOutcome, disk0, diskAtAnalysis>>
    /\ UNCHANGED lineVars

\* jpg_to_txt(): per image, open it, run OCR, save the text beside it.
\* n is the number of images handled before the engine raises (all of
\* them when nothing raises).
JpgToTxt ==
    /\ pc = "ocr"
    /\ trace' = Append(trace, "ocr")
    /\ \E n \in 0..Len(jpg_files) :
         /\ txtDisk' = TxtDiskAfter(txtDisk, jpgDisk, jpg_files, n)
         /\ extracted' = [i \in 1..n |-> ImageToString(jpgDisk[jpg_files[i].n])]
         /\ IF n < Len(jpg_files)
            THEN /\ failed' = "ocr"
                 /\ pc' = AfterRaise(variant, "ocr")
                 /\ shown' = shown \cup RaiseShown(variant) \cup
                             (IF variant = "pdf2csv" /\ n > 0
                              THEN {"converted_to_txt"} ELSE {})
                 /\ UNCHANGED txt_files
            ELSE /\ txt_files' = [i \in 1..n |-> TxtPathOf(jpg_files[i])]
                 /\ pc' = StepAfter("ocr")
                 /\ shown' = IF variant = "pdf2csv" /\ n > 0
                             THEN shown \cup {"converted_to_txt"}
                             ELSE shown
                 /\ UNCHANGED failed
    /\ UNCHANGED <<variant, apiKey, pdf, first_page, last_page, jpgDisk,
                   csvDisk, jpg_files, csv_data, requests, rasterOutcome,
                   saved, analysisOutcome, disk0, diskAtAnalysis>>
    /\ UNCHANGED lineVars

\* csv_data = txt_to_csv(txt_files)
TxtToCsvStep ==
    /\ pc = "reformat"
    /\ trace' = Append(trace, "reformat")
    /\ csv_data' = TxtToCsv(txtDisk, txt_files)
    /\ pc' = StepAfter("reformat")
    /\ UNCHANGED <<variant, apiKey, pdf, first_page, last_page, jpgDisk,
                   txtDisk, csvDisk, jpg_files, txt_files, shown, requests,
                   failed, rasterOutcome, saved, extracted, analysisOutcome,
                   disk0, diskAtAnalysis>>
    /\ UNCHANGED lineVars

\* csv_filename = save_as_csv(csv_data, "output"), st.success; pdf2csv.py
\* then reads output.csv back and displays it.
SaveAsCsv ==
    /\ pc = "save"
    /\ trace' = Append(trace, "save")
    /\ csvDisk' = ("output" :> WriteLines(csv_data)) @@ csvDisk
    /\ shown' = shown \cup {"conversion_completed"} \cup
                (IF variant = "pdf2csv"
                 THEN {"converted_to_csv", "csv_data"} ELSE {})
    /\ pc' = StepAfter("save")
    /\ UNCHANGED <<variant, apiKey, pdf, first_page, last_page, jpgDisk,
                   txtDisk, jpg_files, txt_files, csv_data, requests, failed,
                   rasterOutcome, saved, extracted, analysisOutcome, disk0,
                   diskAtAnalysis>>
    /\ UNCHANGED lineVars

\* analyze_csv_with_gemini(csv_data, output_filename) of main.py, and the
\* st.write after it.  The call of the service returns a response with a
\* text ("ok"), raises ("raise", before or after the request has left),
\* returns a response whose text accessor raises ("text_raises": hasattr
\* lets any exception but AttributeError through), or returns an object
\* without a text attribute ("no_text_attr").
AnalyzeMain ==
    /\ pc = "analysis"
    /\ variant = "main"
    /\ trace' = Append(trace, "analysis")
    /\ diskAtAnalysis' = Artifacts
    /\ \E outcome \in {"ok", "raise", "text_raises", "no_text_attr"},
          sent \in BOOLEAN :
         /\ outcome # "raise" => sent
         /\ analysisOutcome' = outcome
         /\ requests' = IF sent THEN requests + 1 ELSE requests
         /\ CASE outcome = "ok" ->
                   /\ csvDisk' = ("gemini_analysis_output" :> ResponseText) @@ csvDisk
                   /\ shown' = shown \cup {"response_text", "saved_analysis",
                                           "analysis_saved_to"}
              [] outcome = "no_text_attr" ->
                   /\ csvDisk' = ("gemini_analysis_output" :> NoResponseText) @@ csvDisk
                   /\ shown' = shown \cup {"no_response_text_found",
                                           "saved_analysis", "analysis_saved_to"}
              [] OTHER ->
                   /\ csvDisk' = csvDisk
                   /\ shown' = shown \cup {"analysis_error", "analysis_saved_to"}
    /\ pc' = StepAfter("analysis")
    /\ UNCHANGED <<variant, apiKey, pdf, first_page, last_page, jpgDisk,
                   txtDisk, jpg_files, txt_files, csv_data, failed,
                   rasterOutcome, saved, extracted, disk0>>
    /\ UNCHANGED lineVars

\* analyze_csv_with_gemini(csv_content) of pdf2csv.py, and the display of
\* its result: without a key (not api_key: unset or empty) it reports and
\* returns before any call; otherwise the call returns a response ("ok"),
\* a response that is empty ("empty": returned as it is, and displayed
\* only if it is truthy), or raises ("raise").
AnalyzePdf2csv ==
    /\ pc = "analysis"
    /\ variant = "pdf2csv"
    /\ trace' = Append(trace, "analysis")
    /\ diskAtAnalysis' = Artifacts
    /\ IF apiKey # "set"
       THEN /\ analysisOutcome' = "no_key"
            /\ shown' = shown \cup {"analyzing", "api_key_not_found"}
            /\ requests' = requests
       ELSE \E outcome \in {"ok", "empty", "raise"}, sent \in BOOLEAN :
              /\ outcome # "raise" => sent
              /\ analysisOutcome' = outcome
              /\ requests' = IF sent THEN requests + 1 ELSE requests
              /\ shown' = shown \cup {"analyzing"} \cup
                          (CASE outcome = "ok" -> {"analysis_result"}
                             [] outcome = "empty" -> {}
                             [] outcome = "raise" -> {"analysis_error"})
    /\ pc' = StepAfter("analysis")
    /\ UNCHANGED <<variant, apiKey, pdf, first_page, last_page, jpgDisk,
                   txtDisk, csvDisk, jpg_files, txt_files, csv_data, failed,
                   rasterOutcome, saved, extracted, disk0>>
    /\ UNCHANGED lineVars

Next ==
    \/ Startup
    \/ ConvertClick
    \/ LoadConfig
    \/ PdfToJpg
    \/ JpgToTxt
    \/ TxtToCsvStep
    \/ SaveAsCsv
    \/ AnalyzeMain
    \/ AnalyzePdf2csv

Spec == Init /\ [][Next]_vars

(***************************************************************************)
(* The reformatter's transform on single lines                             *)
(***************************************************************************)
Alphabet == {"a", SPACE, COMMA, QUOTE, NL}

\* The lines readlines can return: not empty, a line feed only at the end.
Lines ==
    { l \in UNION { [1..k -> Alphabet] : k \in 1..MaxLineLen } :
        \A i \in 1..(Len(l) - 1) : l[i] # NL }

JohnDoeLine ==
    <<"J", "o", "h", "n", " ", "D", "o", "e", ",", " ",
      "A", "g", "e", ":", " ", "3", "0">>

InitLine ==
    /\ variant = "main"
    /\ apiKey = "set"
    /\ pc = "off"
    /\ pdf = <<>>
    /\ first_page = NoPage
    /\ last_page = NoPage
    /\ disk0 = EmptyDisk
    /\ jpgDisk = disk0.jpg
    /\ txtDisk = disk0.txt
    /\ csvDisk = disk0.csv
    /\ jpg_files = <<>>
    /\ txt_files = <<>>
    /\ csv_data = <<>>
    /\ shown = {}
    /\ requests = 0
    /\ trace = <<>>
    /\ failed = "none"
    /\ rasterOutcome = "none"
    /\ saved = {}
    /\ extracted = <<>>
    /\ analysisOutcome = "none"
    /\ diskAtAnalysis = EmptyDisk
    /\ line \in Lines \cup {JohnDoeLine}
    /\ once = Empty
    /\ twice = Empty
    /\ lpc = "start"

\* The loop body of txt_to_csv on line.
ApplyOnce ==
    /\ lpc = "start"
    /\ once' = Transform(line)
    /\ lpc' = "once"
    /\ UNCHANGED <<line, twice>>
    /\ UNCHANGED pipeVars

\* The loop body of txt_to_csv on its own output.
ApplyTwice ==
    /\ lpc = "once"
    /\ twice' = Transform(once)
    /\ lpc' = "twice"
    /\ UNCHANGED <<line, once>>
    /\ UNCHANGED pipeVars

NextLine ==
    \/ ApplyOnce
    \/ ApplyTwice

SpecLine == InitLine /\ [][NextLine]_vars

(***************************************************************************)
(* Properties                                                              *)
(***************************************************************************)
IsPrefix(s, t) == Len(s) <= Len(t) /\ s = SubSeq(t, 1, Len(s))

Entered(step) == \E i \in 1..Len(trace) : trace[i] = step

Ended == pc \in {"done", "crashed", "stopped"}

\* The position of step s in the fixed order.
StepIndex(s) == CHOOSE i \in 1..Len(Steps) : Steps[i] = s

\* C1: within one Convert invocation the steps run in the order
\* configuration load, rasterization, OCR, reformatting, output.csv save,
\* analysis: the steps entered so far are always an initial part of that
\* order (none before its predecessor, none twice), the step about to run
\* is the one after those entered, and a run that ends without an error
\* has entered them all.
C1_StepsRunInFixedOrder ==
    /\ IsPrefix(trace, Steps)
    /\ (\E i \in 1..Len(Steps) : Steps[i] = pc) => Len(trace) = StepIndex(pc) - 1
    /\ (pc = "done" /\ failed = "none") => trace = Steps

C1_Witness == pc = "done" /\ failed = "none" /\ trace = Steps

\* C4: a failure of the configuration load or of the rasterization ends
\* the run at once: after a configuration failure no rasterization has
\* begun and the working directory is as it was; after a rasterization
\* failure no OCR, no reformatting, no write of output.csv and no request
\* to the service has happened.
C4_ConfigAndRasterFailuresAbort ==
    /\ failed = "config" =>
         /\ trace = <<"config">>
         /\ Ended
         /\ rasterOutcome = "none"
         /\ jpgDisk = disk0.jpg /\ txtDisk = disk0.txt /\ csvDisk = disk0.csv
         /\ requests = 0
    /\ failed = "raster" =>
         /\ trace = <<"config", "raster">>
         /\ Ended
         /\ extracted = <<>> /\ txt_files = <<>> /\ csv_data = <<>>
         /\ txtDisk = disk0.txt /\ csvDisk = disk0.csv
         /\ requests = 0

C4_Witness ==
    /\ failed = "raster"
    /\ rasterOutcome = "ok"
    /\ saved # {}
    /\ Ended

\* C5: with a wrong password the rasterizer fails, the failure is shown,
\* and the page_<n>.jpg files are those that were there before the call.
C5_WrongPasswordWritesNoImage ==
    rasterOutcome = "wrong_password" =>
        /\ failed = "raster"
        /\ shown \cap {"conversion_error", "traceback"} # {}
        /\ jpgDisk = disk0.jpg
        /\ saved = {}
        /\ jpg_files = <<>>

C5_Witness ==
    /\ rasterOutcome = "wrong_password"
    /\ disk0 = StaleDisk
    /\ jpgDisk = StaleDisk.jpg

RasterReturned == Entered("raster") /\ failed = "none"

\* C9 as stated: for every page range first <= last, the rasterizer
\* adapter returns and writes last - first + 1 page images.
C9_ImageCountIsRangeLength ==
    (variant = "pdf2csv" /\ RasterReturned /\ first_page <= last_page) =>
        /\ Len(jpg_files) = last_page - first_page + 1
        /\ Cardinality(saved) = last_page - first_page + 1

\* C9, amended: for every page range first <= last that ends within the
\* document, the rasterizer adapter returns and writes last - first + 1
\* page images.
C9_ImageCountWithinDocument ==
    (/\ variant = "pdf2csv"
     /\ RasterReturned
     /\ first_page <= last_page
     /\ last_page <= Len(pdf)) =>
        /\ Len(jpg_files) = last_page - first_page + 1
        /\ Cardinality(saved) = last_page - first_page + 1

C9_Witness ==
    /\ variant = "pdf2csv"
    /\ RasterReturned
    /\ first_page = 1 /\ last_page = 2 /\ Len(pdf) = 2
    /\ Len(jpg_files) = 2

OcrReturned == Entered("ocr") /\ failed = "none"

\* The OCR adapter's result is index-aligned with its input.
OcrAligned ==
    /\ Len(txt_files) = Len(jpg_files)
    /\ Len(extracted) = Len(jpg_files)
    /\ \A i \in 1..Len(jpg_files) :
         /\ txt_files[i] = WithSuffix(jpg_files[i], "txt")
         /\ txt_files[i].n \in DOMAIN txtDisk
         /\ extracted[i] = pdf[jpgDisk[jpg_files[i].n].page]
         /\ txtDisk[txt_files[i].n] = extracted[i]

\* C10 as stated: the OCR adapter's result is index-aligned with its
\* input, and a single-page document yields exactly one image and exactly
\* one text file.
C10_OcrAlignedOnePagePerDocument ==
    OcrReturned =>
        /\ OcrAligned
        /\ Len(pdf) = 1 => (Len(jpg_files) = 1 /\ Len(txt_files) = 1)

\* C10, amended: the OCR adapter returns one text file path per input
\* image, the i-th being the i-th image path with the suffix .txt, and
\* that file holds the text extracted from the i-th image; a single-page
\* document rasterized from its first page yields exactly one image and
\* exactly one text file.
C10_OcrAlignedOnePageFromFirst ==
    OcrReturned =>
        /\ OcrAligned
        /\ (Len(pdf) = 1 /\ first_page = 1) =>
               (Len(jpg_files) = 1 /\ Len(txt_files) = 1)

C10_Witness ==
    /\ OcrReturned
    /\ Len(jpg_files) = 2
    /\ txt_files = <<[n |-> 1, ext |-> "txt"], [n |-> 2, ext |-> "txt"]>>
    /\ pdf[1] # pdf[2]
    /\ txtDisk[1] = pdf[first_page] /\ txtDisk[2] = pdf[first_page + 1]

\* The lines of the given text files, file after file.
RECURSIVE InputLines(_, _)
InputLines(disk, files) ==
    IF files = <<>> THEN <<>>
    ELSE ReadLines(disk[Head(files).n]) \o InputLines(disk, Tail(files))

SaveReturned == Entered("save") /\ failed = "none"

\* The reformatter's list holds one transformed line per input line, in
\* page order and in line order.
ListKeepsEveryLine ==
    Entered("reformat") =>
        LET input == InputLines(txtDisk, txt_files) IN
        /\ Len(csv_data) = Len(input)
        /\ \A k \in 1..Len(input) : csv_data[k] = Transform(input[k])

\* C6: the reformatter's list, and the output.csv written from it, hold
\* exactly one transformed line per input line, in page order and in line
\* order: the lines of output.csv are the transformed input lines, as
\* many as the text files have.
C6_OutputHasOneLinePerInputLine ==
    SaveReturned =>
        LET input == InputLines(txtDisk, txt_files)
            output == ReadLines(csvDisk["output"])
        IN  /\ Len(csv_data) = Len(input)
            /\ \A k \in 1..Len(input) : csv_data[k] = Transform(input[k])
            /\ Len(output) = Len(input)
            /\ output = csv_data

AnalysisFailed == analysisOutcome \in {"raise", "text_raises", "no_text_attr", "empty"}

\* C2: when the analysis step fails (the call raises, or the response is
\* malformed or empty), the failure is shown to the user, the run does
\* not crash, and page_<n>.jpg, page_<n>.txt and output.csv are as they
\* were when the analysis step began.
C2_AnalysisFailureReported ==
    AnalysisFailed =>
        /\ pc = "done"
        /\ shown \cap {"analysis_error", "no_response_text_found"} # {}
        /\ Artifacts = diskAtAnalysis

\* Where the call raises, both variants catch and show the error, and
\* in every failure the earlier artifacts stay as they were.
RaisedAnalysisReported ==
    /\ analysisOutcome \in {"raise", "text_raises"} =>
           (pc = "done" /\ "analysis_error" \in shown)
    /\ AnalysisFailed => Artifacts = diskAtAnalysis

\* C3: with GEMINI_API_KEY unset or empty no request leaves for the
\* service: the analysis adapter fails and reports it before any request,
\* and output.csv stays as the earlier steps wrote it.
C3_NoRequestWithoutKey ==
    apiKey # "set" =>
        /\ requests = 0
        /\ Entered("analysis") =>
               /\ analysisOutcome \in {"no_key", "raise"}
               /\ shown \cap {"api_key_not_found", "analysis_error"} # {}
               /\ Artifacts = diskAtAnalysis

\* The transform, character by character: a comma and a double quote of
\* the input are dropped, a space becomes a comma, the rest stays.
CharWise(l) ==
    LET kept == SelectSeq(l, LAMBDA x : x # COMMA /\ x # QUOTE)
    IN  [i \in 1..Len(kept) |-> IF kept[i] = SPACE THEN COMMA ELSE kept[i]]

\* "John,Doe,,Age:,30"
JohnDoeTwoCommas ==
    <<"J", "o", "h", "n", ",", "D", "o", "e", ",", ",",
      "A", "g", "e", ":", ",", "3", "0">>

\* "John,Doe,Age:,30"
JohnDoeOneComma ==
    <<"J", "o", "h", "n", ",", "D", "o", "e", ",",
      "A", "g", "e", ":", ",", "3", "0">>

\* C7 as stated: the line "John Doe, Age: 30" becomes
\* "John,Doe,,Age:,30", the commas being removed first, then the spaces
\* replaced by commas, then the double quotes removed.
C7_JohnDoeTwoCommas ==
    lpc # "start" =>
        /\ once = CharWise(line)
        /\ line = JohnDoeLine => once = JohnDoeTwoCommas

\* C7, amended: the line "John Doe, Age: 30" becomes "John,Doe,Age:,30":
\* per line every comma is removed first, then every space replaced by a
\* comma, then every double quote removed.
C7_JohnDoeOneComma ==
    lpc # "start" =>
        /\ once = CharWise(line)
        /\ line = JohnDoeLine => once = JohnDoeOneComma

C7_Witness == lpc = "once" /\ line = JohnDoeLine /\ once = JohnDoeOneComma

Has(l, c) == \E i \in 1..Len(l) : l[i] = c

\* C8 as stated: for a line free of commas and double quotes the
\* transform applied twice gives what it gives applied once.
C8_IdempotentWithoutCommasAndQuotes ==
    (lpc = "twice" /\ ~Has(line, COMMA) /\ ~Has(line, QUOTE)) => twice = once

\* C8, amended: for a line free of commas and double quotes the transform
\* applied twice gives what it gives applied once exactly when the line
\* has no space either; with a space, the second application removes the
\* commas the first one put in.
C8_IdempotentIffNoSpace ==
    (lpc = "twice" /\ ~Has(line, COMMA) /\ ~Has(line, QUOTE)) =>
        /\ (twice = once) <=> ~Has(line, SPACE)
        /\ twice = RemoveAll(line, SPACE)

C8_Witness ==
    /\ lpc = "twice"
    /\ ~Has(line, COMMA) /\ ~Has(line, QUOTE) /\ ~Has(line, SPACE)
    /\ Len(line) >= 2
    /\ twice = once

====
